---- MODULE Spec2Model ----
(***************************************************************************)
(* Facial authentication pipeline of the assistant: FaceSystem (gallery,   *)
(* recognition), FaceAuthenticator (camera, authenticate_user,             *)
(* register_new_user) and SimpleAuthDialog (Qt dialog).                    *)
(*                                                                         *)
(* Time is counted in ticks of 0.1 s (one time.sleep(0.1)).  Confidence is *)
(* counted in percent, cosine similarity in hundredths.  A name is a       *)
(* sequence of one-character strings.                                      *)
(***************************************************************************)
EXTENDS Integers, Sequences, FiniteSets, TLC

VARIABLES
    known_names,          \* FaceSystem.known_names
    known_embeddings,     \* FaceSystem.known_embeddings
    camera,               \* FaceAuthenticator.camera: "none" | "open" | "closed"
    is_camera_running,    \* FaceAuthenticator.is_camera_running
    pc,                   \* position of the thread that uses the authenticator
    timeout,              \* authenticate_user: timeout
    elapsed,              \* authenticate_user: time.time() - start_time
    consecutive_matches,  \* authenticate_user: consecutive_matches
    best_match,           \* authenticate_user: best_match
    best_confidence,      \* authenticate_user: best_confidence
    auth_result,          \* value returned by authenticate_user
    auth_exit,            \* the exit path authenticate_user took
    username,             \* register_new_user: username
    captured_frame,       \* register_new_user: captured_frame is not None
    message,              \* register_new_user: message
    reg_result,           \* value returned by register_new_user
    last_frame,           \* outcome of the last frame of the running call
    run_length,           \* how many frames in a row ended with outcome last_frame
    face_seen,            \* detect_faces reported a box during the running call
    ops,                  \* collaborator operations the running call has invoked
    opens,                \* cv2.VideoCapture(...) constructions of the running call
    names_before,         \* known_names when the running call started
    embeddings_before,    \* known_embeddings when the running call started
    key_pending,          \* a 'q' key press waits in the event queue of the window
    second_open,          \* a capture device was constructed while one was open
    rec_call,             \* the last direct recognize_face call: input and result
    load_call,            \* the last load_database call: the disk it found
    reg_frame,            \* register_new_user: the key the last iteration handled
    fn_call,              \* a call of a function without side effects: input and result
    auth_dialog,          \* the fields of an AuthDialog, its timers and what it emitted
    files,                \* the files in FaceSystem.base_path
    cache,                \* the file FaceSystem.encodings_cache
    capture,              \* SimpleAuthDialog.capture: "open" | "failed" | "released"
    camera_active,        \* SimpleAuthDialog.camera_active
    timer_active,         \* SimpleAuthDialog.timer.isActive()
    last_detected_name,   \* SimpleAuthDialog.last_detected_name
    dialog_matches,       \* SimpleAuthDialog.consecutive_matches
    dialog_history,       \* outcome of the last frame process_frame saw, and its run
    finish_timer,         \* user_data of the pending QTimer.singleShot, or None
    question_open,        \* the QMessageBox.question of skip_auth is showing
    dialog_state,         \* "shown" | "accepted" | "rejected" | "closed"
    status,               \* SimpleAuthDialog.status_label text
    progress,             \* SimpleAuthDialog.progress_bar value
    events                \* signals emitted and ways the dialog ended, in order

authVars == <<timeout, elapsed, consecutive_matches, best_match, best_confidence,
              auth_result, auth_exit>>
regVars == <<username, captured_frame, message, reg_result>>
galleryVars == <<known_names, known_embeddings>>
cameraVars == <<camera, is_camera_running>>
callVars == <<last_frame, run_length, face_seen, ops, opens, names_before, embeddings_before>>
storeVars == <<files, cache>>
otherVars == <<fn_call, auth_dialog>>
observeVars == <<rec_call, load_call, reg_frame, otherVars>>
sessionVars == <<known_names, known_embeddings, camera, is_camera_running, pc,
                 authVars, regVars, callVars, key_pending, second_open, storeVars,
                 observeVars>>
dialogVars == <<capture, camera_active, timer_active, last_detected_name,
                dialog_matches, dialog_history, finish_timer, question_open,
                dialog_state, status,
                progress, events>>

(***************************************************************************)
(* Bounds of the model.                                                    *)
(***************************************************************************)
MaxTimeout == 2
MaxTick == 1

(***************************************************************************)
(* Program constants.                                                      *)
(***************************************************************************)
required_consecutive_frames == 3
REQUIRED_MATCHES == 3
dialog_min_confidence == 60
min_confidence == 14
confidence_threshold == 14
embedding_dim == 1404
min_quality == 50
min_name_len == 2

None == <<"None">>
Desconocido == <<"Desconocido">>

\* usernames given to register_new_user / register_face
UserNames ==
    { <<>>, <<"x">>, <<" ", "x", " ">>, <<"a", "!">>,
      <<"a", "b">>, <<" ", "a", "b">>, <<"a", "!", "b">>, <<"c", "d">> }

\* cosine similarities a frame can have to a stored embedding
SimLevels == {-74, -72, 100}

\* quality scores calculate_face_quality can report
QualityLevels == {45, 50, 100}

Min(a, b) == IF a < b THEN a ELSE b

(***************************************************************************)
(* Strings.                                                                *)
(***************************************************************************)
IsAlnum(c) == c \in {"a", "b", "c", "d", "x", "e", "i", "t", "o", "s", "m", "n"}

IsSpace(c) == c = " "

RECURSIVE LStrip(_)
LStrip(s) == IF s # <<>> /\ IsSpace(Head(s)) THEN LStrip(Tail(s)) ELSE s

RECURSIVE RStrip(_)
RStrip(s) ==
    IF s # <<>> /\ IsSpace(s[Len(s)]) THEN RStrip(SubSeq(s, 1, Len(s) - 1)) ELSE s

Strip(s) == RStrip(LStrip(s))

KeepChar(c) == IsAlnum(c) \/ c \in {" ", "_", "-"}

SafeName(name) == Strip(SelectSeq(name, KeepChar))

Exitosamente == <<"e", "x", "i", "t", "o", "s", "a", "m", "e", "n", "t", "e">>

Contains(s, needle) ==
    \E i \in 1..(Len(s) - Len(needle) + 1) :
        SubSeq(s, i, i + Len(needle) - 1) = needle

\* a message is its fixed text and the name interpolated into it
Msg(text, name) == [text |-> text, name |-> name]

NoMessage == Msg("", <<>>)

MessageContains(m, needle) == Contains(m.name, needle)

\* the cache file: kind is "absent", "unreadable" (pickle.load raises), "nokeys"
\* (no 'embeddings' or 'names' key) or "dict"
Cache(kind, names, embeddings) ==
    [kind |-> kind, names |-> names, embeddings |-> embeddings]

NoCache == Cache("absent", <<>>, <<>>)

(***************************************************************************)
(* FaceSystem.                                                             *)
(***************************************************************************)
InNames(name, names) == \E i \in 1..Len(names) : names[i] = name

\* an image is 0 when FaceMesh finds no landmarks in it; an embedding is its
\* dimension (shape[0]), 0 for None
ExtractFaceEmbedding(image) == IF image = 0 THEN 0 ELSE embedding_dim

\* the duplicate test looks for the name as given, not for the sanitized name
RegisterFaceRawDuplicateTest(names, embs, image, name, write_raises) ==
    LET safe_name == SafeName(name)
        embedding == ExtractFaceEmbedding(image)
    IN  IF safe_name = <<>> \/ Len(safe_name) < min_name_len
        THEN [ok |-> FALSE, msg |-> Msg("Nombre invalido", <<>>),
              names |-> names, embs |-> embs]
        ELSE IF InNames(name, names)
        THEN [ok |-> FALSE, msg |-> Msg("ya existe", safe_name),
              names |-> names, embs |-> embs]
        ELSE IF embedding = 0
        THEN [ok |-> FALSE, msg |-> Msg("No se detecto rostro", <<>>),
              names |-> names, embs |-> embs]
        ELSE IF write_raises
        THEN [ok |-> FALSE, msg |-> Msg("Error", <<>>),
              names |-> names, embs |-> embs]
        ELSE [ok |-> TRUE, msg |-> Msg("registrado", safe_name),
              names |-> Append(names, safe_name),
              embs |-> Append(embs, embedding)]

\* write_raises: cv2.imwrite raises
RegisterFace(names, embs, image, name, write_raises) ==
    LET safe_name == SafeName(name)
        embedding == ExtractFaceEmbedding(image)
    IN  IF safe_name = <<>> \/ Len(safe_name) < min_name_len
        THEN [ok |-> FALSE, msg |-> Msg("Nombre invalido", <<>>),
              names |-> names, embs |-> embs]
        ELSE IF InNames(safe_name, names)
        THEN [ok |-> FALSE, msg |-> Msg("ya existe", safe_name),
              names |-> names, embs |-> embs]
        ELSE IF embedding = 0
        THEN [ok |-> FALSE, msg |-> Msg("No se detecto rostro", <<>>),
              names |-> names, embs |-> embs]
        ELSE IF write_raises
        THEN [ok |-> FALSE, msg |-> Msg("Error", <<>>),
              names |-> names, embs |-> embs]
        ELSE [ok |-> TRUE, msg |-> Msg("registrado", safe_name),
              names |-> Append(names, safe_name),
              embs |-> Append(embs, embedding)]

Index(names, name) == CHOOSE i \in 1..Len(names) :
                          names[i] = name /\ \A j \in 1..(i - 1) : names[j] # name

Pop(s, idx) == SubSeq(s, 1, idx - 1) \o SubSeq(s, idx + 1, Len(s))

\* the embedding popped is the last one
DeleteUserPopsLastEmbedding(names, embs, name, unlink_raises) ==
    IF ~InNames(name, names)
    THEN [ok |-> FALSE, msg |-> Msg("no encontrado", name), names |-> names,
          embs |-> embs]
    ELSE [ok |-> ~unlink_raises,
          msg |-> IF unlink_raises THEN Msg("Error", <<>>) ELSE Msg("eliminado", name),
          names |-> Pop(names, Index(names, name)),
          embs |-> Pop(embs, Len(embs))]

\* lines 470-493; unlink_raises: file_path.unlink() fails, after both pops
DeleteUser(names, embs, name, unlink_raises) ==
    IF ~InNames(name, names)
    THEN [ok |-> FALSE, msg |-> Msg("no encontrado", name), names |-> names,
          embs |-> embs]
    ELSE [ok |-> ~unlink_raises,
          msg |-> IF unlink_raises THEN Msg("Error", <<>>) ELSE Msg("eliminado", name),
          names |-> Pop(names, Index(names, name)),
          embs |-> Pop(embs, Index(names, name))]

ZipLen(embs, names) == Min(Len(embs), Len(names))

\* >= for >: a later candidate with the same similarity replaces the best
BetterOrEqual(similarity, best_similarity) == similarity >= best_similarity

Better(similarity, best_similarity) == similarity > best_similarity

RECURSIVE Scan(_, _, _, _, _)
Scan(i, n, names, sim, best) ==
    IF i > n THEN best
    ELSE IF Better(sim[i], best.similarity)
         THEN Scan(i + 1, n, names, sim, [similarity |-> sim[i], match |-> names[i]])
         ELSE Scan(i + 1, n, names, sim, best)

\* the test for a missing query embedding is left out
NoQueryIgnored(query) == FALSE

NoQuery(query) == query = 0

\* > for >=
AboveThresholdStrict(confidence) == confidence > confidence_threshold

AboveThreshold(confidence) == confidence >= confidence_threshold

\* confidence = (best_similarity + 1) / 2, in percent
Confidence(similarity) == (similarity + 100) \div 2

\* query = 0: no embedding extracted; sim[i]: dot product with known_embeddings[i];
\* scanned: candidates the loop compared
RecognizeFace(embs, names, query, sim) ==
    IF Len(embs) = 0 THEN [name |-> Desconocido, confidence |-> 0, scanned |-> 0]
    ELSE IF NoQuery(query) THEN [name |-> Desconocido, confidence |-> 0, scanned |-> 0]
    ELSE LET n == ZipLen(embs, names)
             best == Scan(1, n, names, sim, [similarity |-> -100, match |-> None])
             confidence == Confidence(best.similarity)
         IN  IF best.match = None
             THEN [name |-> Desconocido, confidence |-> 0, scanned |-> n]
             ELSE IF AboveThreshold(confidence)
                  THEN [name |-> best.match, confidence |-> confidence, scanned |-> n]
                  ELSE [name |-> Desconocido, confidence |-> confidence, scanned |-> n]

\* the count is one too high
GetUserCountOffByOne(names) == Len(names) + 1

GetUserCount(names) == Len(names)

(***************************************************************************)
(* FaceSystem: the files.  A file of base_path is its stem, its extension  *)
(* and the image in it.  An embedding is its dimension; -1 is an object   *)
(* without a shape.                                                        *)
(***************************************************************************)
File(stem, ext, image) == [stem |-> stem, ext |-> ext, image |-> image]

valid_extensions == {"jpg", "jpeg", "png", "bmp"}

\* 478 landmarks x 3: what FaceMesh gives with refine_landmarks=True
refined_dim == 1434

SaveToCache(names, embs) == Cache("dict", names, embs)

HasShape(embedding) == embedding > 0

Count(embs, d) == Cardinality({i \in DOMAIN embs : embs[i] = d})

\* Counter(dimensions).most_common(1)[0][0]: the first of the most frequent
MostCommonDim(embs) ==
    embs[CHOOSE i \in DOMAIN embs :
             /\ \A j \in DOMAIN embs : Count(embs, embs[j]) <= Count(embs, embs[i])
             /\ \A j \in 1..(i - 1) : Count(embs, embs[j]) < Count(embs, embs[i])]

ResizeEmbedding(dim, target_dim) ==
    IF dim = target_dim THEN dim
    ELSE IF dim > target_dim THEN target_dim
    ELSE dim + (target_dim - dim)

\* raises when an element has no shape
NormalizeRaises(embs) == \E i \in DOMAIN embs : ~HasShape(embs[i])

NormalizeEmbeddings(embs) ==
    IF embs = <<>> THEN embs
    ELSE [i \in DOMAIN embs |-> ResizeEmbedding(embs[i], MostCommonDim(embs))]

\* the lists are assigned before _normalize_embeddings runs
LoadFromCache(names, embs, c) ==
    IF c.kind = "dict"
    THEN IF NormalizeRaises(c.embeddings)
         THEN [ok |-> FALSE, names |-> c.names, embs |-> c.embeddings]
         ELSE [ok |-> TRUE, names |-> c.names, embs |-> NormalizeEmbeddings(c.embeddings)]
    ELSE [ok |-> FALSE, names |-> names, embs |-> embs]

IsLoadable(f) == f.ext \in valid_extensions /\ ExtractFaceEmbedding(f.image) # 0

\* order: the files as iterdir yields them
LoadFromImages(names, embs, order, c) ==
    LET loaded == SelectSeq(order, IsLoadable)
        names2 == names \o [i \in 1..Len(loaded) |-> loaded[i].stem]
        embs2 == embs \o [i \in 1..Len(loaded) |-> ExtractFaceEmbedding(loaded[i].image)]
    IN  IF NormalizeRaises(embs2)
        THEN [ok |-> FALSE, raised |-> TRUE, names |-> names2, embs |-> embs2,
              cache |-> c]
        ELSE [ok |-> Len(loaded) > 0, raised |-> FALSE, names |-> names2,
              embs |-> NormalizeEmbeddings(embs2),
              cache |-> IF Len(loaded) > 0
                        THEN SaveToCache(names2, NormalizeEmbeddings(embs2))
                        ELSE c]

LoadDatabase(names, embs, order, c) ==
    LET lc == LoadFromCache(names, embs, c)
    IN  IF lc.ok
        THEN [ok |-> TRUE, raised |-> FALSE, names |-> lc.names, embs |-> lc.embs,
              cache |-> c]
        ELSE LoadFromImages(lc.names, lc.embs, order, c)

\* cv2.imwrite(base_path / f"{safe_name}.jpg", image)
WriteImage(fs, stem, image) ==
    {f \in fs : ~(f.stem = stem /\ f.ext = "jpg")} \cup {File(stem, "jpg", image)}

\* delete_user unlinks name.jpg, .jpeg, .png, .bmp and .json
DeleteFiles(fs, name) ==
    {f \in fs : ~(f.stem = name /\ f.ext \in valid_extensions \cup {"json"})}

(***************************************************************************)
(* FaceAuthenticator: camera.                                              *)
(* dev is what cv2.VideoCapture(camera_index) does: "ok", "fail" (object   *)
(* that is not opened) or "raise".                                         *)
(***************************************************************************)
DevOutcomes == {"ok", "fail", "raise"}

\* the construction is not guarded by the test of the handle
StartCameraUnguarded(cam, run, dev) ==
    CASE dev = "ok"    -> [camera |-> "open", running |-> TRUE, ok |-> TRUE, opened |-> 1]
      [] dev = "fail"  -> [camera |-> "closed", running |-> run, ok |-> FALSE, opened |-> 1]
      [] dev = "raise" -> [camera |-> cam, running |-> run, ok |-> FALSE, opened |-> 1]

StartCamera(cam, run, dev) ==
    IF cam # "open"
    THEN CASE dev = "ok"    -> [camera |-> "open", running |-> TRUE, ok |-> TRUE, opened |-> 1]
           [] dev = "fail"  -> [camera |-> "closed", running |-> run, ok |-> FALSE, opened |-> 1]
           [] dev = "raise" -> [camera |-> cam, running |-> run, ok |-> FALSE, opened |-> 1]
    ELSE [camera |-> cam, running |-> run, ok |-> TRUE, opened |-> 0]

StopCamera(cam) ==
    [camera |-> IF cam = "open" THEN "none" ELSE cam, running |-> FALSE]

\* read: camera.read() delivers a frame
CaptureFrame(cam, run, dev, read) ==
    LET sc == IF cam # "open" THEN StartCamera(cam, run, dev)
              ELSE [camera |-> cam, running |-> run, ok |-> TRUE, opened |-> 0]
    IN  [camera |-> sc.camera, running |-> sc.running, opened |-> sc.opened,
         did_read |-> sc.ok, frame |-> sc.ok /\ read]

\* second_open after a call that constructed `opened` capture devices while
\* self.camera was cam
SecondOpen(cam, opened) == second_open \/ (cam = "open" /\ opened > 0)

\* the count stops at 2: two or more
CountOpen(n, opened) == Min(n + opened, 2)

(***************************************************************************)
(* Per-call bookkeeping.                                                   *)
(***************************************************************************)
\* frames in a row with the same outcome, counted up to the number that matters
RunLength(frame_outcome) ==
    IF frame_outcome = last_frame
    THEN Min(run_length + 1, required_consecutive_frames)
    ELSE 1

Record(frame_outcome) ==
    /\ last_frame' = frame_outcome
    /\ run_length' = RunLength(frame_outcome)

\* outcomes of a frame other than the name it was recognised as
NoFaceFrame == <<"no face">>
EmptyCrop == <<"empty crop">>
UnknownFace == <<"unknown">>
FrameError == <<"error">>

\* boxes detect_faces returns: inside the frame, with positive width and height
FaceLocationLists ==
    { <<>>, << <<0, 0, 1, 1>> >>, << <<0, 0, 1, 1>>, <<1, 0, 2, 2>> >> }

\* authenticate_user looks at the first box only
PrimaryFaceLists == { << <<0, 0, 1, 1>> >> }

FaceRegionSize(box) == (box[4] - box[2]) * (box[3] - box[1])

SleepTicks == 1..MaxTick
WorkTicks == {0, 1}
Timeouts == 1..MaxTimeout

DevChoices == IF camera = "open" THEN {"ok"} ELSE DevOutcomes

NoResult == [ok |-> FALSE, name |-> None, confidence |-> 0]

\* no direct recognize_face call has returned
NoRecCall == [query |-> 0, sim |-> <<>>, name |-> None, confidence |-> 0, scanned |-> 0]

\* no load_database call is being observed
NoLoadCall == [cache |-> NoCache, order |-> <<>>, ok |-> FALSE, raised |-> FALSE]

NewCall ==
    /\ last_frame' = None
    /\ run_length' = 0
    /\ face_seen' = FALSE
    /\ ops' = {}
    /\ names_before' = known_names
    /\ embeddings_before' = known_embeddings

(***************************************************************************)
(* FaceAuthenticator.authenticate_user.                                    *)
(***************************************************************************)
Matches(name, confidence) == name # Desconocido /\ confidence >= min_confidence

\* consecutive_matches after the frame's result (name, confidence)
NextConsecutive(cm, name, confidence) ==
    IF Matches(name, confidence) THEN cm + 1 ELSE 0

\* consecutive_matches after a frame without a face box
NoFaceConsecutive(cm) == cm

\* the count is tested after every frame with a face, matching or not
AcceptsAnyFrame(cm, name, confidence) ==
    cm + 1 >= required_consecutive_frames

\* > for >=
AcceptsOffByOne(cm, name, confidence) ==
    Matches(name, confidence) /\ cm + 1 > required_consecutive_frames

Accepts(cm, name, confidence) ==
    Matches(name, confidence) /\ cm + 1 >= required_consecutive_frames

\* the operands of the subtraction swapped
LoopConditionSwapped(el, t) == 0 - el < t

LoopCondition(el, t) == el < t

\* time.time() - start_time after adv more ticks; the clock of the model stops
\* at MaxTimeout + MaxTick, past every timeout
Advance(el, adv) == Min(el + adv, MaxTimeout + MaxTick)

\* what cv2.waitKey(1) returns: a 'q' waiting in the queue, else the key pressed
\* during the call
WaitKey(key) == IF key_pending THEN "q" ELSE key

\* cv2.imshow has created the window that receives key presses
WindowShown == "imshow" \in ops

\* lines 123-142: up to the first evaluation of the loop condition
AuthStart(t, dev) ==
    /\ pc = "idle"
    /\ UNCHANGED <<dialogVars, key_pending, storeVars, observeVars>>
    /\ NewCall
    /\ timeout' = t
    /\ elapsed' = 0
    /\ consecutive_matches' = 0
    /\ best_match' = None
    /\ best_confidence' = 0
    /\ UNCHANGED <<galleryVars, regVars>>
    /\ IF GetUserCount(known_names) = 0
       THEN /\ pc' = "auth_done"
            /\ auth_result' = NoResult
            /\ auth_exit' = "no_users"
            /\ opens' = 0
            /\ UNCHANGED <<cameraVars, second_open>>
       ELSE LET sc == StartCamera(camera, is_camera_running, dev)
            IN  /\ camera' = sc.camera
                /\ is_camera_running' = sc.running
                /\ opens' = CountOpen(0, sc.opened)
                /\ second_open' = SecondOpen(camera, sc.opened)
                /\ IF sc.ok
                   THEN /\ pc' = "auth"
                        /\ auth_result' = NoResult
                        /\ auth_exit' = "none"
                   ELSE /\ pc' = "auth_done"
                        /\ auth_result' = NoResult
                        /\ auth_exit' = "no_camera"

\* leaving the loop without acceptance: lines 237-247
AuthFail(exit) ==
    /\ pc' = "auth_done"
    /\ auth_exit' = exit
    /\ auth_result' = [ok |-> FALSE, name |-> best_match', confidence |-> best_confidence']

\* one iteration in which capture_frame returns None (lines 147-150)
AuthNoFrame(dev, read, adv) ==
    /\ pc = "auth"
    /\ UNCHANGED <<dialogVars, key_pending, storeVars, observeVars>>
    /\ LoopCondition(elapsed, timeout)
    /\ LET cf == CaptureFrame(camera, is_camera_running, dev, read)
       IN  /\ ~cf.frame
           /\ camera' = cf.camera
           /\ is_camera_running' = cf.running
           /\ opens' = CountOpen(opens, cf.opened)
           /\ second_open' = SecondOpen(camera, cf.opened)
           /\ ops' = ops \cup (IF cf.did_read THEN {"read"} ELSE {})
    /\ elapsed' = Advance(elapsed, adv)
    /\ UNCHANGED <<galleryVars, regVars, timeout, consecutive_matches, best_match,
                   best_confidence, auth_result, auth_exit, pc, last_frame, run_length,
                   face_seen,
                   names_before, embeddings_before>>

\* one iteration in which detect_faces returns no box (lines 147-166)
AuthNoFace(dev, raises, key, adv) ==
    /\ pc = "auth"
    /\ UNCHANGED <<dialogVars, storeVars, observeVars>>
    /\ key_pending' = FALSE
    /\ LoopCondition(elapsed, timeout)
    /\ LET cf == CaptureFrame(camera, is_camera_running, dev, TRUE)
       IN  /\ cf.frame
           /\ camera' = cf.camera
           /\ is_camera_running' = cf.running
           /\ opens' = CountOpen(opens, cf.opened)
           /\ second_open' = SecondOpen(camera, cf.opened)
    /\ ops' = ops \cup {"read", "detect_faces"}
                \cup (IF raises THEN {} ELSE {"imshow"})
    /\ Record(NoFaceFrame)
    /\ consecutive_matches' = NoFaceConsecutive(consecutive_matches)
    /\ UNCHANGED <<galleryVars, regVars, timeout, best_match, best_confidence,
                   face_seen, names_before, embeddings_before>>
    /\ IF raises
       THEN AuthFail("exception") /\ UNCHANGED elapsed
       ELSE IF WaitKey(key) = "q"
       THEN AuthFail("cancel") /\ UNCHANGED elapsed
       ELSE /\ elapsed' = Advance(elapsed, adv)
            /\ UNCHANGED <<pc, auth_result, auth_exit>>

\* one iteration in which detect_faces returns boxes (lines 147-235)
AuthFace(dev, face_locations, query, sim, raises, key, adv) ==
    /\ pc = "auth"
    /\ UNCHANGED <<dialogVars, storeVars, observeVars>>
    /\ LoopCondition(elapsed, timeout)
    /\ face_locations # <<>>
    /\ LET cf == CaptureFrame(camera, is_camera_running, dev, TRUE)
       IN  /\ cf.frame
           /\ camera' = cf.camera
           /\ is_camera_running' = cf.running
           /\ opens' = CountOpen(opens, cf.opened)
           /\ second_open' = SecondOpen(camera, cf.opened)
    /\ face_seen' = TRUE
    /\ UNCHANGED <<galleryVars, regVars, timeout, names_before, embeddings_before>>
    /\ IF FaceRegionSize(face_locations[1]) = 0
       THEN /\ adv \in SleepTicks
            /\ ops' = ops \cup {"read", "detect_faces"}
            /\ Record(EmptyCrop)
            /\ UNCHANGED key_pending
            /\ elapsed' = Advance(elapsed, adv)
            /\ UNCHANGED <<pc, auth_result, auth_exit, consecutive_matches,
                           best_match, best_confidence>>
       ELSE LET r == RecognizeFace(known_embeddings, known_names, query, sim)
                m == Matches(r.name, r.confidence)
            IN  /\ ops' = ops \cup {"read", "detect_faces", "recognize_face"}
                            \cup (IF raises THEN {} ELSE {"imshow"})
                /\ key_pending' = FALSE
                /\ IF raises
                   THEN /\ Record(FrameError)
                        /\ UNCHANGED <<elapsed, consecutive_matches, best_match,
                                       best_confidence>>
                        /\ AuthFail("exception")
                   ELSE /\ Record(IF m THEN r.name ELSE UnknownFace)
                        /\ consecutive_matches' =
                               NextConsecutive(consecutive_matches, r.name, r.confidence)
                        /\ IF m /\ r.confidence > best_confidence
                           THEN best_match' = r.name /\ best_confidence' = r.confidence
                           ELSE UNCHANGED <<best_match, best_confidence>>
                        /\ IF Accepts(consecutive_matches, r.name, r.confidence)
                           THEN /\ pc' = "auth_done"
                                /\ auth_exit' = "accepted"
                                /\ auth_result' = [ok |-> TRUE, name |-> r.name,
                                                   confidence |-> r.confidence]
                                /\ UNCHANGED elapsed
                           ELSE IF WaitKey(key) = "q"
                           THEN AuthFail("cancel") /\ UNCHANGED elapsed
                           ELSE /\ elapsed' = Advance(elapsed, adv)
                                /\ UNCHANGED <<pc, auth_result, auth_exit>>

\* the loop condition fails: lines 145, 240-247
AuthTimeout ==
    /\ pc = "auth"
    /\ UNCHANGED <<dialogVars, second_open, storeVars, observeVars>>
    /\ key_pending' = FALSE
    /\ ~LoopCondition(elapsed, timeout)
    /\ UNCHANGED <<best_match, best_confidence>>
    /\ AuthFail("timeout")
    /\ UNCHANGED <<galleryVars, cameraVars, regVars, callVars, timeout, elapsed,
                   consecutive_matches>>

\* the user presses 'q' in the window while the loop is between two waitKey calls
PressQ ==
    /\ pc = "auth"
    /\ WindowShown
    /\ ~key_pending
    /\ key_pending' = TRUE
    /\ UNCHANGED <<dialogVars, second_open, storeVars, observeVars>>
    /\ UNCHANGED <<galleryVars, cameraVars, authVars, regVars, callVars, pc>>

(***************************************************************************)
(* FaceAuthenticator.register_new_user.                                    *)
(***************************************************************************)
\* only the empty name is refused
InvalidUsernameEmptyOnly(name) == name = <<>> \/ Len(Strip(name)) < 1

InvalidUsername(name) == name = <<>> \/ Len(Strip(name)) < min_name_len

\* lines 391-396
RegReturn(complete, captured, msg) ==
    IF complete /\ captured /\ MessageContains(msg, Exitosamente)
    THEN [ok |-> TRUE, msg |-> msg]
    ELSE [ok |-> FALSE,
          msg |-> IF msg = NoMessage THEN Msg("Registro fallido", <<>>) ELSE msg]

\* the last iteration of the registration loop handled no key
NoRegFrame ==
    [seen |-> FALSE, faces |-> 0, quality |-> 0, key |-> "none", registered |-> FALSE]

\* lines 259-273: up to the first evaluation of the loop condition
RegStart(name, dev) ==
    /\ pc = "idle"
    /\ UNCHANGED <<dialogVars, key_pending, storeVars, rec_call, load_call, otherVars>>
    /\ reg_frame' = NoRegFrame
    /\ NewCall
    /\ username' = name
    /\ captured_frame' = FALSE
    /\ message' = NoMessage
    /\ UNCHANGED <<galleryVars, authVars>>
    /\ IF InvalidUsername(name)
       THEN /\ pc' = "reg_done"
            /\ reg_result' = [ok |-> FALSE,
                              msg |-> Msg("El nombre debe tener al menos 2 caracteres", <<>>)]
            /\ opens' = 0
            /\ UNCHANGED <<cameraVars, second_open>>
       ELSE LET sc == StartCamera(camera, is_camera_running, dev)
            IN  /\ camera' = sc.camera
                /\ is_camera_running' = sc.running
                /\ opens' = CountOpen(0, sc.opened)
                /\ second_open' = SecondOpen(camera, sc.opened)
                /\ IF sc.ok
                   THEN /\ pc' = "reg"
                        /\ UNCHANGED reg_result
                   ELSE /\ pc' = "reg_done"
                        /\ reg_result' = [ok |-> FALSE,
                                          msg |-> Msg("No se pudo iniciar la camara", <<>>)]

\* one iteration in which capture_frame returns None (lines 285-288)
RegNoFrame(dev, read) ==
    /\ pc = "reg"
    /\ UNCHANGED <<dialogVars, key_pending, storeVars, rec_call, load_call, otherVars>>
    /\ reg_frame' = NoRegFrame
    /\ LET cf == CaptureFrame(camera, is_camera_running, dev, read)
       IN  /\ ~cf.frame
           /\ camera' = cf.camera
           /\ is_camera_running' = cf.running
           /\ opens' = CountOpen(opens, cf.opened)
           /\ second_open' = SecondOpen(camera, cf.opened)
           /\ ops' = ops \cup (IF cf.did_read THEN {"read"} ELSE {})
    /\ UNCHANGED <<galleryVars, authVars, regVars, pc, last_frame, run_length,
                   face_seen, names_before, embeddings_before>>

\* a capture test that accepts any frame with a face
CaptureAllowedAnyFaces(face_locations, quality_score) ==
    face_locations # <<>> /\ quality_score >= min_quality

\* lines 346-349: the tests a SPACE key press has to pass
CaptureAllowed(face_locations, quality_score) ==
    Len(face_locations) = 1 /\ quality_score >= min_quality

\* one iteration with a frame (lines 285-382); image: the face FaceMesh finds in
\* the whole frame
RegFrame(dev, face_locations, quality_score, raises, key, image, write_raises) ==
    /\ pc = "reg"
    /\ UNCHANGED <<dialogVars, key_pending, rec_call, load_call, otherVars>>
    /\ reg_frame' = IF raises \/ key = "none"
                    THEN NoRegFrame
                    ELSE [seen |-> TRUE, faces |-> Len(face_locations),
                          quality |-> IF face_locations = <<>> THEN 0
                                      ELSE quality_score,
                          key |-> key,
                          registered |-> key = " " /\ CaptureAllowed(face_locations,
                                                                     quality_score)]
    /\ LET cf == CaptureFrame(camera, is_camera_running, dev, TRUE)
       IN  /\ cf.frame
           /\ camera' = cf.camera
           /\ is_camera_running' = cf.running
           /\ opens' = CountOpen(opens, cf.opened)
           /\ second_open' = SecondOpen(camera, cf.opened)
    /\ UNCHANGED <<authVars, username, last_frame, run_length, face_seen,
                   names_before, embeddings_before>>
    /\ LET seen == ops \cup {"read", "detect_faces"}
                       \cup (IF face_locations # <<>>
                             THEN {"calculate_face_quality"} ELSE {})
       IN
       IF raises
       THEN /\ ops' = seen
            /\ message' = Msg("Error durante registro", <<>>)
            /\ pc' = "reg_done"
            /\ reg_result' = RegReturn(FALSE, captured_frame, message')
            /\ UNCHANGED <<galleryVars, captured_frame, storeVars>>
       ELSE IF key = " " /\ CaptureAllowed(face_locations, quality_score)
       THEN LET rf == RegisterFace(known_names, known_embeddings, image, username,
                                   write_raises)
            IN  /\ ops' = seen \cup {"register_face"}
                /\ captured_frame' = TRUE
                /\ message' = rf.msg
                /\ known_names' = rf.names
                /\ known_embeddings' = rf.embs
                /\ files' = IF rf.ok THEN WriteImage(files, SafeName(username), image)
                            ELSE files
                /\ cache' = IF rf.ok THEN SaveToCache(rf.names, rf.embs) ELSE cache
                /\ IF rf.ok
                   THEN /\ pc' = "reg_done"
                        /\ reg_result' = RegReturn(TRUE, TRUE, rf.msg)
                   ELSE UNCHANGED <<pc, reg_result>>
       ELSE IF key = "q"
       THEN /\ ops' = seen
            /\ message' = Msg("Registro cancelado por el usuario", <<>>)
            /\ pc' = "reg_done"
            /\ reg_result' = RegReturn(TRUE, captured_frame, message')
            /\ UNCHANGED <<galleryVars, captured_frame, storeVars>>
       ELSE /\ ops' = seen
            /\ UNCHANGED <<galleryVars, captured_frame, message, pc, reg_result,
                           storeVars>>

(***************************************************************************)
(* Calls made while no session runs, the device, and the return to the     *)
(* caller.                                                                 *)
(***************************************************************************)
StartCameraCall(dev) ==
    /\ pc = "idle"
    /\ UNCHANGED <<dialogVars, key_pending, storeVars, observeVars>>
    /\ LET sc == StartCamera(camera, is_camera_running, dev)
       IN  /\ camera' = sc.camera
           /\ is_camera_running' = sc.running
           /\ second_open' = SecondOpen(camera, sc.opened)
    /\ UNCHANGED <<galleryVars, authVars, regVars, callVars, pc>>

StopCameraCall ==
    /\ pc = "idle"
    /\ UNCHANGED <<dialogVars, key_pending, second_open, storeVars, observeVars>>
    /\ LET sc == StopCamera(camera)
       IN  camera' = sc.camera /\ is_camera_running' = sc.running
    /\ UNCHANGED <<galleryVars, authVars, regVars, callVars, pc>>

CaptureFrameCall(dev, read) ==
    /\ pc = "idle"
    /\ UNCHANGED <<dialogVars, key_pending, storeVars, observeVars>>
    /\ LET cf == CaptureFrame(camera, is_camera_running, dev, read)
       IN  /\ camera' = cf.camera
           /\ is_camera_running' = cf.running
           /\ second_open' = SecondOpen(camera, cf.opened)
    /\ UNCHANGED <<galleryVars, authVars, regVars, callVars, pc>>

\* FaceSystem.register_face called directly
RegisterFaceCall(image, name, write_raises) ==
    /\ pc = "idle"
    /\ UNCHANGED <<dialogVars, key_pending, second_open, observeVars>>
    /\ NewCall
    /\ opens' = 0
    /\ LET rf == RegisterFace(known_names, known_embeddings, image, name, write_raises)
       IN  /\ known_names' = rf.names
           /\ known_embeddings' = rf.embs
           /\ reg_result' = [ok |-> rf.ok, msg |-> rf.msg]
           /\ files' = IF rf.ok THEN WriteImage(files, SafeName(name), image) ELSE files
           /\ cache' = IF rf.ok THEN SaveToCache(rf.names, rf.embs) ELSE cache
    /\ username' = name
    /\ pc' = "face_done"
    /\ UNCHANGED <<cameraVars, authVars, captured_frame, message>>

\* FaceSystem.recognize_face called directly
RecognizeFaceCall(query, sim) ==
    /\ pc = "idle"
    /\ LET r == RecognizeFace(known_embeddings, known_names, query, sim)
       IN  rec_call' = [query |-> query, sim |-> sim, name |-> r.name,
                        confidence |-> r.confidence, scanned |-> r.scanned]
    /\ pc' = "rec_done"
    /\ UNCHANGED <<dialogVars, key_pending, second_open, storeVars, load_call, reg_frame,
                   otherVars>>
    /\ UNCHANGED <<galleryVars, cameraVars, authVars, regVars, callVars>>

\* FaceSystem.delete_user called directly
DeleteUserCall(name, unlink_raises) ==
    /\ pc = "idle"
    /\ unlink_raises => DeleteFiles(files, name) # files
    /\ UNCHANGED <<dialogVars, key_pending, second_open, observeVars>>
    /\ NewCall
    /\ opens' = 0
    /\ LET du == DeleteUser(known_names, known_embeddings, name, unlink_raises)
       IN  /\ known_names' = du.names
           /\ known_embeddings' = du.embs
           /\ reg_result' = [ok |-> du.ok, msg |-> du.msg]
           /\ files' = IF du.ok THEN DeleteFiles(files, name) ELSE files
           /\ cache' = IF du.ok THEN SaveToCache(du.names, du.embs) ELSE cache
    /\ username' = name
    /\ pc' = "del_done"
    /\ UNCHANGED <<cameraVars, authVars, captured_frame, message>>

\* FaceSystem.load_database, from __init__ (line 49) or called again
LoadDatabaseCall(order) ==
    /\ pc \in {"init", "idle"}
    /\ UNCHANGED <<dialogVars, key_pending, second_open, rec_call, reg_frame, otherVars,
                   files>>
    /\ NewCall
    /\ opens' = 0
    /\ LET ld == LoadDatabase(known_names, known_embeddings, order, cache)
       IN  /\ known_names' = ld.names
           /\ known_embeddings' = ld.embs
           /\ cache' = ld.cache
           /\ load_call' = [cache |-> cache, order |-> order, ok |-> ld.ok,
                            raised |-> ld.raised]
           /\ pc' = IF ld.raised THEN "load_failed" ELSE "load_done"
    /\ UNCHANGED <<cameraVars, authVars, regVars>>

\* the capture device stops being opened (isOpened() turns False), the case
\* capture_frame tests for before every read
CameraLost ==
    /\ pc \in {"idle", "auth", "reg"}
    /\ UNCHANGED <<dialogVars, key_pending, second_open, storeVars, observeVars>>
    /\ camera = "open"
    /\ camera' = "closed"
    /\ UNCHANGED <<galleryVars, is_camera_running, authVars, regVars, callVars, pc>>

\* the caller takes the returned value; the locals of the call are gone
Resume ==
    /\ pc \in {"auth_done", "reg_done", "face_done", "rec_done", "del_done",
              "load_done"}
    /\ UNCHANGED <<dialogVars, key_pending, second_open, storeVars, otherVars>>
    /\ pc' = "idle"
    /\ timeout' = 0
    /\ elapsed' = 0
    /\ consecutive_matches' = 0
    /\ best_match' = None
    /\ best_confidence' = 0
    /\ auth_result' = NoResult
    /\ auth_exit' = "none"
    /\ username' = <<>>
    /\ captured_frame' = FALSE
    /\ message' = NoMessage
    /\ reg_result' = [ok |-> FALSE, msg |-> NoMessage]
    /\ last_frame' = None
    /\ run_length' = 0
    /\ face_seen' = FALSE
    /\ ops' = {}
    /\ opens' = 0
    /\ names_before' = <<>>
    /\ embeddings_before' = <<>>
    /\ rec_call' = NoRecCall
    /\ load_call' = NoLoadCall
    /\ reg_frame' = NoRegFrame
    /\ UNCHANGED <<galleryVars, cameraVars>>

vars == <<known_names, known_embeddings, camera, is_camera_running, pc, timeout,
          elapsed, consecutive_matches, best_match, best_confidence, auth_result,
          auth_exit, username, captured_frame, message, reg_result, last_frame,
          run_length, face_seen, ops, opens, names_before, embeddings_before,
          key_pending, second_open, rec_call, load_call, reg_frame, fn_call,
          auth_dialog, files,
          cache, capture,
          camera_active, timer_active, last_detected_name, dialog_matches,
          dialog_history, finish_timer, question_open, dialog_state, status, progress, events>>

\* process_frame has not seen a frame
NoHistory == [last |-> None, run |-> 0]

\* no dialog has been constructed
NoDialog ==
    /\ capture = "failed"
    /\ camera_active = FALSE
    /\ timer_active = FALSE
    /\ last_detected_name = None
    /\ dialog_matches = 0
    /\ dialog_history = NoHistory
    /\ finish_timer = None
    /\ question_open = FALSE
    /\ dialog_state = "closed"
    /\ status = "Iniciando camara"
    /\ progress = 0
    /\ events = <<>>

\* the authenticator right after construction
SessionFresh ==
    /\ camera = "none"
    /\ is_camera_running = FALSE
    /\ timeout = 0
    /\ elapsed = 0
    /\ consecutive_matches = 0
    /\ best_match = None
    /\ best_confidence = 0
    /\ auth_result = NoResult
    /\ auth_exit = "none"
    /\ username = <<>>
    /\ captured_frame = FALSE
    /\ message = NoMessage
    /\ reg_result = [ok |-> FALSE, msg |-> NoMessage]
    /\ last_frame = None
    /\ run_length = 0
    /\ face_seen = FALSE
    /\ ops = {}
    /\ opens = 0
    /\ names_before = <<>>
    /\ embeddings_before = <<>>
    /\ key_pending = FALSE
    /\ second_open = FALSE
    /\ rec_call = NoRecCall
    /\ reg_frame = NoRegFrame

\* no function is being observed
NoFnCall == [fn |-> "none", done |-> FALSE]

\* no AuthDialog has been constructed
NoAuthDialog ==
    [face_system |-> "none", capture |-> "failed", camera_active |-> FALSE,
     timer_active |-> FALSE, auth_start_time |-> FALSE, progress |-> 0,
     auth_completed |-> FALSE, finish_timer |-> None, retry_shown |-> FALSE,
     auth_attempts |-> 0, state |-> "closed", events |-> <<>>]

SessionIdle == SessionFresh /\ pc = "idle"

\* a fresh installation: nothing on disk, so load_database finds nothing
Init ==
    /\ NoDialog
    /\ SessionIdle
    /\ known_names = <<>>
    /\ known_embeddings = <<>>
    /\ files = {}
    /\ cache = NoCache
    /\ load_call = NoLoadCall
    /\ fn_call = NoFnCall
    /\ auth_dialog = NoAuthDialog

Keys == {"none", "q"}
RegKeys == {"none", " ", "q"}
\* 1: an image in which FaceMesh finds landmarks
Images == {0, 1}
SimFunctions == [1..ZipLen(known_embeddings, known_names) -> SimLevels]
\* with -100 (cosine -1), the value best_similarity starts from
RecSimLevels == SimLevels \cup {-100}

AuthLoop ==
    \/ \E dev \in DevChoices, read \in BOOLEAN, adv \in SleepTicks :
           AuthNoFrame(dev, read, adv)
    \/ \E dev \in DevChoices, raises \in BOOLEAN, key \in Keys, adv \in SleepTicks :
           /\ raises => key = "none" /\ adv = 1
           /\ AuthNoFace(dev, raises, key, adv)
    \/ \E dev \in DevChoices, face_locations \in PrimaryFaceLists, query \in Images,
          sim \in SimFunctions, raises \in BOOLEAN, key \in Keys, adv \in WorkTicks :
           /\ raises => key = "none" /\ adv = 0
           /\ AuthFace(dev, face_locations, query, sim, raises, key, adv)
    \/ AuthTimeout

RegLoop ==
    \/ \E dev \in DevChoices, read \in BOOLEAN : RegNoFrame(dev, read)
    \/ \E dev \in DevChoices, face_locations \in FaceLocationLists,
          quality_score \in QualityLevels, raises \in BOOLEAN, key \in RegKeys,
          image \in Images, write_raises \in BOOLEAN :
           /\ raises => key = "none"
           /\ RegFrame(dev, face_locations, quality_score, raises, key, image, write_raises)

Next ==
    \/ \E t \in Timeouts, dev \in DevChoices : AuthStart(t, dev)
    \/ AuthLoop
    \/ \E name \in UserNames, dev \in DevChoices : RegStart(name, dev)
    \/ RegLoop
    \/ \E dev \in DevChoices : StartCameraCall(dev)
    \/ StopCameraCall
    \/ \E dev \in DevChoices, read \in BOOLEAN : CaptureFrameCall(dev, read)
    \/ \E image \in Images, name \in UserNames, write_raises \in BOOLEAN :
           RegisterFaceCall(image, name, write_raises)
    \/ \E query \in Images,
          sim \in [1..ZipLen(known_embeddings, known_names) -> RecSimLevels] :
           RecognizeFaceCall(query, sim)
    \/ \E name \in UserNames : DeleteUserCall(name, FALSE)
    \/ CameraLost
    \/ PressQ
    \/ Resume

Spec == Init /\ [][Next]_vars

(***************************************************************************)
(* SimpleAuthDialog.  The dialog object outlives accept() and reject(): its *)
(* timers keep firing while they are active.                               *)
(***************************************************************************)
\* the progress_bar value process_frame sets for n matches
Progress(n) == Min((n * 100) \div REQUIRED_MATCHES, 100)

\* process_frame: the new consecutive_matches, last_detected_name, status text
\* and progress value, and the user_data it returns
ProcessFrame(cm, last, st, pr, face_locations, query, sim, raises) ==
    IF face_locations = <<>>
    THEN [matches |-> 0, last |-> last, status |-> "Acercate a la camara",
          progress |-> pr, user_data |-> None, outcome |-> NoFaceFrame]
    ELSE IF FaceRegionSize(face_locations[1]) = 0 \/ raises
    THEN [matches |-> cm, last |-> last, status |-> st, progress |-> pr,
          user_data |-> None,
          outcome |-> IF FaceRegionSize(face_locations[1]) = 0 THEN EmptyCrop
                      ELSE FrameError]
    ELSE LET r == RecognizeFace(known_embeddings, known_names, query, sim)
         IN  IF r.name # Desconocido /\ r.confidence >= dialog_min_confidence
             THEN LET n == IF r.name = last THEN cm + 1 ELSE 1
                  IN  [matches |-> n, last |-> r.name,
                       status |-> IF n >= REQUIRED_MATCHES THEN "Autenticado como"
                                  ELSE "Reconociendo",
                       progress |-> Progress(n),
                       user_data |-> IF n >= REQUIRED_MATCHES THEN r.name ELSE None,
                       outcome |-> r.name]
             ELSE [matches |-> 0, last |-> None, status |-> "Rostro no reconocido",
                   progress |-> pr, user_data |-> None, outcome |-> UnknownFace]

Release(cap) == IF cap = "open" THEN "released" ELSE cap

\* the 30 ms timer fires: update_frame, process_frame, on_auth_success
UpdateFrame(ret, face_locations, query, sim, raises) ==
    /\ UNCHANGED sessionVars
    /\ timer_active
    /\ camera_active
    /\ capture = "open"
    /\ IF ~ret
       THEN UNCHANGED dialogVars
       ELSE LET pf == ProcessFrame(dialog_matches, last_detected_name, status,
                                   progress, face_locations, query, sim, raises)
            IN  /\ dialog_matches' = pf.matches
                /\ last_detected_name' = pf.last
                /\ dialog_history' =
                       [last |-> pf.outcome,
                        run |-> IF pf.outcome = dialog_history.last
                                THEN Min(dialog_history.run + 1, REQUIRED_MATCHES)
                                ELSE 1]
                /\ IF pf.user_data # None
                   THEN /\ timer_active' = FALSE
                        /\ capture' = Release(capture)
                        /\ finish_timer' = pf.user_data
                        /\ progress' = 100
                        /\ status' = "Bienvenido"
                   ELSE /\ UNCHANGED <<timer_active, capture, finish_timer>>
                        /\ progress' = pf.progress
                        /\ status' = pf.status
                /\ UNCHANGED <<camera_active, question_open, dialog_state, events>>

\* the single shot of on_auth_success fires: finish_auth
FinishAuth ==
    /\ UNCHANGED sessionVars
    /\ finish_timer # None
    /\ finish_timer' = None
    /\ events' = events \o <<"auth_successful", "accept">>
    /\ dialog_state' = "accepted"
    /\ UNCHANGED <<capture, camera_active, timer_active, last_detected_name,
                   dialog_matches, dialog_history, question_open, status, progress>>

\* the Skip button: skip_auth up to the modal question
SkipClicked ==
    /\ UNCHANGED sessionVars
    /\ dialog_state = "shown"
    /\ ~question_open
    /\ question_open' = TRUE
    /\ UNCHANGED <<capture, camera_active, timer_active, last_detected_name,
                   dialog_matches, dialog_history, finish_timer, dialog_state, status,
                   progress, events>>

\* the question is answered: the rest of skip_auth
SkipAnswered(yes) ==
    /\ UNCHANGED sessionVars
    /\ question_open
    /\ question_open' = FALSE
    /\ IF yes
       THEN /\ capture' = Release(capture)
            /\ timer_active' = FALSE
            /\ events' = events \o <<"auth_skipped", "accept">>
            /\ dialog_state' = "accepted"
       ELSE UNCHANGED <<capture, timer_active, events, dialog_state>>
    /\ UNCHANGED <<camera_active, last_detected_name, dialog_matches, dialog_history,
                   finish_timer, status, progress>>

\* the Cancel button is connected to QDialog.reject
CancelClicked ==
    /\ UNCHANGED sessionVars
    /\ dialog_state = "shown"
    /\ ~question_open
    /\ dialog_state' = "rejected"
    /\ events' = Append(events, "reject")
    /\ UNCHANGED <<capture, camera_active, timer_active, last_detected_name,
                   dialog_matches, dialog_history, finish_timer, question_open, status,
                   progress>>

\* the window is closed: closeEvent
CloseEvent ==
    /\ UNCHANGED sessionVars
    /\ dialog_state = "shown"
    /\ ~question_open
    /\ capture' = Release(capture)
    /\ timer_active' = FALSE
    /\ dialog_state' = "closed"
    /\ events' = Append(events, "close")
    /\ UNCHANGED <<camera_active, last_detected_name, dialog_matches, dialog_history,
                   finish_timer, question_open, status, progress>>

\* galleries the face system given to the dialog can hold
DialogGalleries ==
    { <<>>, << <<"a", "b">> >>, << <<"a", "b">>, <<"c", "d">> >>,
      << <<"c", "d">>, <<"a", "b">> >> }

\* after __init__ (setup_ui, start_camera) and exec(): the camera opened, or
\* show_error ran
DialogInit ==
    /\ SessionIdle
    /\ known_names \in DialogGalleries
    /\ known_embeddings = [i \in 1..Len(known_names) |-> embedding_dim]
    /\ files = {}
    /\ cache = NoCache
    /\ load_call = NoLoadCall
    /\ fn_call = NoFnCall
    /\ auth_dialog = NoAuthDialog
    /\ \/ /\ capture = "open"
          /\ camera_active = TRUE
          /\ timer_active = TRUE
          /\ status = "Camara activa"
       \/ /\ capture = "failed"
          /\ camera_active = FALSE
          /\ timer_active = FALSE
          /\ status = "Error"
    /\ progress = 0
    /\ last_detected_name = None
    /\ dialog_matches = 0
    /\ dialog_history = NoHistory
    /\ finish_timer = None
    /\ question_open = FALSE
    /\ dialog_state = "shown"
    /\ events = <<>>

DialogSimLevels == {-72, 20, 100}

DialogNext ==
    \/ \E ret \in BOOLEAN, face_locations \in FaceLocationLists, query \in Images,
          sim \in [1..Len(known_names) -> DialogSimLevels], raises \in BOOLEAN :
           UpdateFrame(ret, face_locations, query, sim, raises)
    \/ FinishAuth
    \/ SkipClicked
    \/ \E yes \in BOOLEAN : SkipAnswered(yes)
    \/ CancelClicked
    \/ CloseEvent

DialogSpec == DialogInit /\ [][DialogNext]_vars

\* the 30 ms timer fires for as long as it is active, and a single shot that is
\* pending fires
TimerFires ==
    \E ret \in BOOLEAN, face_locations \in FaceLocationLists, query \in Images,
       sim \in [1..Len(known_names) -> DialogSimLevels], raises \in BOOLEAN :
        UpdateFrame(ret, face_locations, query, sim, raises)

DialogLiveSpec == DialogSpec /\ WF_vars(TimerFires) /\ WF_vars(FinishAuth)

(***************************************************************************)
(* FaceSystem on a data directory that already holds files.                *)
(***************************************************************************)
\* files a data directory can hold: two images of 'ab', one of 'cd', an image
\* without a face and a file that is not an image
FileUniverse ==
    { File(<<"a", "b">>, "jpg", 1), File(<<"a", "b">>, "png", 1),
      File(<<"c", "d">>, "jpg", 1), File(<<"e", "f">>, "bmp", 0),
      File(<<"c", "d">>, "txt", 1) }

\* cache files: none, not a pickle, a pickle without the keys, one written by
\* _save_to_cache, ones written with refine_landmarks, one whose embedding is
\* not an array
CacheFiles ==
    { NoCache, Cache("unreadable", <<>>, <<>>), Cache("nokeys", <<>>, <<>>),
      Cache("dict", << <<"a", "b">> >>, <<embedding_dim>>),
      Cache("dict", << <<"a", "b">>, <<"c", "d">> >>, <<refined_dim, refined_dim>>),
      Cache("dict", << <<"a", "b">>, <<"c", "d">> >>, <<refined_dim, embedding_dim>>),
      Cache("dict", << <<"a", "b">> >>, <<-1>>) }

\* the orders in which iterdir can yield the files
Orders(fs) ==
    {o \in [1..Cardinality(fs) -> fs] :
        \A i, j \in 1..Cardinality(fs) : i # j => o[i] # o[j]}

\* __init__ up to line 46: the lists are empty, load_database is about to run
StoreInit ==
    /\ NoDialog
    /\ SessionFresh
    /\ pc = "init"
    /\ known_names = <<>>
    /\ known_embeddings = <<>>
    /\ files \in SUBSET FileUniverse
    /\ cache \in CacheFiles
    /\ load_call = NoLoadCall
    /\ fn_call = NoFnCall
    /\ auth_dialog = NoAuthDialog

StoreNext ==
    \/ \E order \in Orders(files) : LoadDatabaseCall(order)
    \/ \E image \in Images, name \in UserNames, write_raises \in BOOLEAN :
           RegisterFaceCall(image, name, write_raises)
    \/ \E name \in UserNames, unlink_raises \in BOOLEAN :
           DeleteUserCall(name, unlink_raises)
    \/ Resume

StoreSpec == StoreInit /\ [][StoreNext]_vars

(***************************************************************************)
(* Functions without side effects, applied to inputs drawn from bounded    *)
(* sets.  A real number x is held as the integer x * One.                  *)
(***************************************************************************)
One == 390
max_points == 468

\* the sum of the squares of v[lo..hi]
RECURSIVE SumSq(_, _, _)
SumSq(v, lo, hi) ==
    IF lo > hi THEN 0
    ELSE IF lo = hi THEN v[lo] * v[lo]
    ELSE LET mid == (lo + hi) \div 2
         IN  SumSq(v, lo, mid) + SumSq(v, mid + 1, hi)

\* np.linalg.norm, for the vectors whose norm is a multiple of 1 / One
Norm(v) ==
    LET sum == SumSq(v, 1, Len(v))
    IN  CHOOSE n \in 0..46340 : n * n = sum

\* lines 236-243
NormalizeEmbeddingVector(embedding) ==
    LET norm == Norm(embedding)
    IN  IF norm > 0
        THEN [i \in 1..Len(embedding) |-> (embedding[i] * One) \div norm]
        ELSE embedding

\* lines 211-222: x, y, z of the first max_points landmarks, padded with zeros
Flatten(landmark) ==
    LET kept == Min(Len(landmark), max_points)
    IN  [i \in 1..(max_points * 3) |->
            IF i <= kept * 3 THEN landmark[((i - 1) \div 3) + 1][((i - 1) % 3) + 1]
            ELSE 0]

\* _extract_face_embedding on the landmarks FaceMesh reports: the vector it
\* returns, or None
ExtractFaceEmbeddingVector(face_mesh, multi_face_landmarks) ==
    IF ~face_mesh \/ multi_face_landmarks = <<>>
    THEN [is_none |-> TRUE, vec |-> <<>>]
    ELSE LET embedding == SubSeq(Flatten(multi_face_landmarks[1]), 1, embedding_dim)
         IN  [is_none |-> FALSE, vec |-> NormalizeEmbeddingVector(embedding)]

Point(x, y, z) == <<x * One, y * One, z * One>>

\* faces FaceMesh can report: every landmark at one point (468 landmarks, or 478
\* with refine_landmarks), or a single landmark
FaceLandmarks ==
    { [i \in 1..max_points |-> Point(0, 0, 0)],
      [i \in 1..max_points |-> Point(0, 2, 3)],
      [i \in 1..(max_points + 10) |-> Point(0, 2, 3)],
      << Point(0, 3, 4) >>,
      << Point(0, -3, 4) >> }

ExtractInputs ==
    { [fn |-> "_extract_face_embedding", done |-> FALSE, face_mesh |-> m,
       multi_face_landmarks |-> l] :
        m \in BOOLEAN, l \in {<<>>} \cup { <<f>> : f \in FaceLandmarks } }

ExtractFaceEmbeddingCall ==
    /\ fn_call.fn = "_extract_face_embedding"
    /\ ~fn_call.done
    /\ fn_call' = [fn |-> fn_call.fn, done |-> TRUE, face_mesh |-> fn_call.face_mesh,
                   multi_face_landmarks |-> fn_call.multi_face_landmarks,
                   out |-> ExtractFaceEmbeddingVector(fn_call.face_mesh,
                                                      fn_call.multi_face_landmarks)]
    /\ UNCHANGED <<known_names, known_embeddings, camera, is_camera_running, pc,
                   authVars, regVars, callVars, key_pending, second_open, storeVars,
                   rec_call, load_call, reg_frame, auth_dialog, dialogVars>>

Max(a, b) == IF a > b THEN a ELSE b

\* the measurements calculate_face_quality takes of a crop: its shape, np.mean
\* and np.std of the gray image, the variance of its Laplacian; raises: a cv2
\* or numpy call fails
Sizes == {49, 50, 70, 100, 130}
BrightnessLevels == {49, 50, 99, 100, 150, 151, 200, 201}
ContrastLevels == {19, 20}
BlurLevels == {49, 50}

\* the brightness tests are separate ifs
CalculateFaceQualitySeparateIfs(h, w, brightness, contrast, blur, raises) ==
    IF raises THEN 0
    ELSE LET size == IF h < 50 \/ w < 50 THEN 40 ELSE 0
             aspect == IF h > 0 /\ 10 * w >= 7 * h /\ 10 * w <= 13 * h THEN 0 ELSE 20
             light == (IF brightness < 50 THEN 30 ELSE 0)
                      + (IF brightness > 200 THEN 20 ELSE 0)
                      + (IF brightness < 100 THEN 10 ELSE 0)
                      + (IF brightness > 150 THEN 5 ELSE 0)
             flat == IF contrast < 20 THEN 15 ELSE 0
             blurred == IF blur < 50 THEN 25 ELSE 0
         IN  Max(0, Min(100, 100 - size - aspect - light - flat - blurred))

\* face_utils.py lines 184-252: the score calculate_face_quality returns
CalculateFaceQuality(h, w, brightness, contrast, blur, raises) ==
    IF raises THEN 0
    ELSE LET size == IF h < 50 \/ w < 50 THEN 40 ELSE 0
             \* aspect_ratio = w / h if h > 0 else 0, tested against 0.7 and 1.3
             aspect == IF h > 0 /\ 10 * w >= 7 * h /\ 10 * w <= 13 * h THEN 0 ELSE 20
             light == IF brightness < 50 THEN 30
                      ELSE IF brightness > 200 THEN 20
                      ELSE IF brightness < 100 THEN 10
                      ELSE IF brightness > 150 THEN 5
                      ELSE 0
             flat == IF contrast < 20 THEN 15 ELSE 0
             blurred == IF blur < 50 THEN 25 ELSE 0
         IN  Max(0, Min(100, 100 - size - aspect - light - flat - blurred))

QualityInputs ==
    { [fn |-> "calculate_face_quality", done |-> FALSE, h |-> h, w |-> w,
       brightness |-> b, contrast |-> c, blur |-> l, raises |-> r] :
        h \in Sizes, w \in Sizes, b \in BrightnessLevels, c \in ContrastLevels,
        l \in BlurLevels, r \in BOOLEAN }

CalculateFaceQualityCall ==
    /\ fn_call.fn = "calculate_face_quality"
    /\ ~fn_call.done
    /\ fn_call' = [fn |-> fn_call.fn, done |-> TRUE, h |-> fn_call.h, w |-> fn_call.w,
                   brightness |-> fn_call.brightness, contrast |-> fn_call.contrast,
                   blur |-> fn_call.blur, raises |-> fn_call.raises,
                   out |-> CalculateFaceQuality(fn_call.h, fn_call.w,
                                                fn_call.brightness, fn_call.contrast,
                                                fn_call.blur, fn_call.raises)]
    /\ UNCHANGED <<known_names, known_embeddings, camera, is_camera_running, pc,
                   authVars, regVars, callVars, key_pending, second_open, storeVars,
                   rec_call, load_call, reg_frame, auth_dialog, dialogVars>>

\* int(x) of the real number a / b: the fraction is dropped
Trunc(a, b) == IF a >= 0 THEN a \div b ELSE -((-a) \div b)

\* face_system.py lines 376-392: the box of one detection in a frame of shape
\* (h, w); the relative_bounding_box holds tenths
DetectionBox(bbox, h, w) ==
    LET x0 == Trunc(bbox.xmin * w, 10)
        y0 == Trunc(bbox.ymin * h, 10)
        width0 == Trunc(bbox.width * w, 10)
        height0 == Trunc(bbox.height * h, 10)
        x == Max(0, x0)
        y == Max(0, y0)
        width == Min(w - x, width0)
        height == Min(h - y, height0)
    IN  IF width > 0 /\ height > 0 THEN << <<x, y, x + width, y + height>> >> ELSE <<>>

RECURSIVE DetectionBoxes(_, _, _)
DetectionBoxes(detections, h, w) ==
    IF detections = <<>> THEN <<>>
    ELSE DetectionBox(Head(detections), h, w) \o DetectionBoxes(Tail(detections), h, w)

\* face_system.py lines 401-421; faces: what detectMultiScale returns
DetectFacesOpencv(faces) ==
    [i \in 1..Len(faces) |->
        <<faces[i][1], faces[i][2], faces[i][1] + faces[i][3], faces[i][2] + faces[i][4]>>]

\* face_system.py lines 365-399; face_detection: the MediaPipe detector exists;
\* raises: cvtColor or process fails
DetectFaces(face_detection, raises, h, w, detections, faces) ==
    IF ~face_detection \/ raises
    THEN DetectFacesOpencv(faces)
    ELSE DetectionBoxes(detections, h, w)

\* shape of the frame: (h, w)
FrameShape == <<3, 4>>

RelativeBoxes ==
    { [xmin |-> x, ymin |-> y, width |-> wd, height |-> ht] :
        x \in {-5, 0, 5, 12}, y \in {-5, 0, 5}, wd \in {-2, 0, 5, 15}, ht \in {0, 5, 15} }

\* rectangles (x, y, w, h) of detectMultiScale: windows of the scaled image
\* mapped back with rounding, so one can pass the edge of the frame
CascadeRects == { <<0, 0, 2, 2>>, <<2, 1, 2, 2>>, <<2, 0, 3, 3>> }

DetectInputs ==
    { [fn |-> "detect_faces", done |-> FALSE, face_detection |-> TRUE,
       raises |-> FALSE, detections |-> d, faces |-> <<>>] :
        d \in {<<>>} \cup { <<b>> : b \in RelativeBoxes }
                    \cup { <<b, [xmin |-> 0, ymin |-> 0, width |-> 5, height |-> 5]>> :
                             b \in RelativeBoxes } }
    \cup
    { [fn |-> "detect_faces", done |-> FALSE, face_detection |-> m, raises |-> r,
       detections |-> <<>>, faces |-> f] :
        m \in BOOLEAN, r \in BOOLEAN,
        f \in {<<>>} \cup { <<c>> : c \in CascadeRects } }

DetectFacesCall ==
    /\ fn_call.fn = "detect_faces"
    /\ ~fn_call.done
    /\ fn_call' = [fn |-> fn_call.fn, done |-> TRUE,
                   face_detection |-> fn_call.face_detection,
                   raises |-> fn_call.raises, detections |-> fn_call.detections,
                   faces |-> fn_call.faces,
                   out |-> DetectFaces(fn_call.face_detection, fn_call.raises,
                                       FrameShape[1], FrameShape[2],
                                       fn_call.detections, fn_call.faces)]
    /\ UNCHANGED <<known_names, known_embeddings, camera, is_camera_running, pc,
                   authVars, regVars, callVars, key_pending, second_open, storeVars,
                   rec_call, load_call, reg_frame, auth_dialog, dialogVars>>

FunInit ==
    /\ NoDialog
    /\ SessionIdle
    /\ known_names = <<>>
    /\ known_embeddings = <<>>
    /\ files = {}
    /\ cache = NoCache
    /\ load_call = NoLoadCall
    /\ auth_dialog = NoAuthDialog
    /\ \/ fn_call \in ExtractInputs
       \/ fn_call \in QualityInputs
       \/ fn_call \in DetectInputs

FunNext ==
    \/ ExtractFaceEmbeddingCall
    \/ CalculateFaceQualityCall
    \/ DetectFacesCall

FunSpec == FunInit /\ [][FunNext]_vars

(***************************************************************************)
(* AuthDialog.  face_system is "none", "FaceSystem" or "recognizer", an     *)
(* object that has a detect_and_recognize method.                          *)
(***************************************************************************)
MAX_ATTEMPTS == 5
UsuarioDemo == <<"Usuario Demo">>

\* seconds since auth_start_time, as datetime.now() can report them
ElapsedLevels == {0, 2, 4}

\* auth_dialog.py lines 456 and 514: the progress value after that many seconds
ElapsedProgress(seconds) == Min((seconds * 100) \div 3, 100)

\* lines 492-528: fallback_face_detection; faces: what detectMultiScale returns
FallbackFaceDetection(start, pr, faces, seconds) ==
    IF faces = <<>>
    THEN [user_data |-> None, auth_start_time |-> start, progress |-> pr]
    ELSE [user_data |-> IF seconds > 3 THEN UsuarioDemo ELSE None,
          auth_start_time |-> TRUE, progress |-> ElapsedProgress(seconds)]

\* what face_system.detect_and_recognize(frame) can return
Results ==
    { [face_detected |-> FALSE, bbox |-> FALSE, name |-> None, confidence |-> 0],
      [face_detected |-> TRUE, bbox |-> FALSE, name |-> None, confidence |-> 0],
      [face_detected |-> TRUE, bbox |-> TRUE, name |-> None, confidence |-> 0],
      [face_detected |-> TRUE, bbox |-> TRUE, name |-> <<"a", "b">>, confidence |-> 70],
      [face_detected |-> TRUE, bbox |-> TRUE, name |-> <<"a", "b">>, confidence |-> 71] }

\* the value of fallback_face_detection is what the frame yields
ProcessFrameWithRealtimeAuthFallbackUsed(face_system, start, pr, result, faces, seconds) ==
    FallbackFaceDetection(start, pr, faces, seconds)

\* lines 419-490, the definition of process_frame_with_realtime_auth in effect
ProcessFrameWithRealtimeAuth(face_system, start, pr, result, faces, seconds) ==
    IF face_system = "recognizer"
    THEN IF result.face_detected
         THEN IF result.bbox
              THEN [user_data |-> IF result.name # None /\ result.confidence > 70
                                  THEN result.name ELSE None,
                    auth_start_time |-> TRUE, progress |-> ElapsedProgress(seconds)]
              ELSE [user_data |-> None, auth_start_time |-> start, progress |-> pr]
         ELSE [user_data |-> None, auth_start_time |-> FALSE, progress |-> 0]
    ELSE \* FaceSystem has no detect_and_recognize: AttributeError, the except
         \* branch; no face system: the else branch; both drop the value of
         \* fallback_face_detection
         LET fb == FallbackFaceDetection(start, pr, faces, seconds)
         IN  [user_data |-> None, auth_start_time |-> fb.auth_start_time,
              progress |-> fb.progress]

AuthDialogUnchanged ==
    UNCHANGED <<known_names, known_embeddings, camera, is_camera_running, pc,
                authVars, regVars, callVars, key_pending, second_open, storeVars,
                rec_call, load_call, reg_frame, fn_call, dialogVars>>

\* lines 386-417 and 539-557: the camera_timer fires
AuthUpdateFrame(ret, result, faces, seconds) ==
    /\ AuthDialogUnchanged
    /\ auth_dialog.timer_active
    /\ auth_dialog.camera_active
    /\ auth_dialog.capture = "open"
    /\ ~auth_dialog.auth_start_time => seconds = 0
    /\ IF ~ret
       THEN UNCHANGED auth_dialog
       ELSE LET pf == ProcessFrameWithRealtimeAuth(auth_dialog.face_system,
                                                   auth_dialog.auth_start_time,
                                                   auth_dialog.progress, result, faces,
                                                   seconds)
            IN  IF pf.user_data # None /\ ~auth_dialog.auth_completed
                THEN auth_dialog' = [auth_dialog EXCEPT
                                       !.auth_start_time = pf.auth_start_time,
                                       !.auth_completed = TRUE,
                                       !.timer_active = FALSE,
                                       !.progress = 100,
                                       !.finish_timer = pf.user_data]
                ELSE auth_dialog' = [auth_dialog EXCEPT
                                       !.auth_start_time = pf.auth_start_time,
                                       !.progress = pf.progress]

\* lines 559-567: the single shot of on_auth_success fires; run_app.py lines
\* 254-266: the slot connected to auth_successful accepts the dialog
AuthFinishAuth ==
    /\ AuthDialogUnchanged
    /\ auth_dialog.finish_timer # None
    /\ auth_dialog' = [auth_dialog EXCEPT
                          !.finish_timer = None,
                          !.capture = Release(@),
                          !.camera_active = IF auth_dialog.capture = "failed"
                                            THEN @ ELSE FALSE,
                          !.events = Append(@, "auth_successful"),
                          !.state = "accepted"]

\* lines 569-589: on_skip with the answer to its question; run_app.py lines
\* 289-292: the slot connected to auth_skipped accepts the dialog
OnSkip(yes) ==
    /\ AuthDialogUnchanged
    /\ auth_dialog.state = "shown"
    /\ ~auth_dialog.auth_completed
    /\ IF yes
       THEN auth_dialog' = [auth_dialog EXCEPT
                              !.capture = Release(@),
                              !.timer_active = FALSE,
                              !.events = Append(@, "auth_skipped"),
                              !.state = "accepted"]
       ELSE UNCHANGED auth_dialog

\* lines 591-601
ShowError(d) ==
    [d EXCEPT !.retry_shown = TRUE,
              !.capture = Release(@),
              !.camera_active = IF d.capture = "failed" THEN @ ELSE FALSE,
              !.timer_active = FALSE,
              !.events = Append(@, "error")]

\* lines 366-384: setup_camera; opened: VideoCapture(0).isOpened()
SetupCamera(d, opened) ==
    IF opened
    THEN [d EXCEPT !.capture = "open", !.camera_active = TRUE, !.timer_active = TRUE]
    ELSE ShowError([d EXCEPT !.capture = "failed"])

\* lines 603-617: the retry button
RestartCamera(opened) ==
    /\ AuthDialogUnchanged
    /\ auth_dialog.state = "shown"
    /\ auth_dialog.retry_shown
    /\ auth_dialog.auth_attempts < MAX_ATTEMPTS
    /\ LET d == [auth_dialog EXCEPT !.auth_attempts = @ + 1]
       IN  IF d.auth_attempts >= MAX_ATTEMPTS
           THEN auth_dialog' = ShowError(d)
           ELSE auth_dialog' = SetupCamera([d EXCEPT !.retry_shown = FALSE,
                                                      !.progress = 0,
                                                      !.auth_start_time = FALSE],
                                           opened)

\* lines 619-628
AuthCloseEvent ==
    /\ AuthDialogUnchanged
    /\ auth_dialog.state = "shown"
    /\ auth_dialog' = [auth_dialog EXCEPT
                          !.capture = Release(@),
                          !.timer_active = FALSE,
                          !.events = Append(@, "close"),
                          !.state = "closed"]

FaceSystems == {"none", "FaceSystem", "recognizer"}

\* after __init__ (setup_ui, setup_camera) and show()
AuthDialogInit ==
    /\ NoDialog
    /\ SessionIdle
    /\ known_names = <<>>
    /\ known_embeddings = <<>>
    /\ files = {}
    /\ cache = NoCache
    /\ load_call = NoLoadCall
    /\ fn_call = NoFnCall
    /\ \E fs \in FaceSystems, opened \in BOOLEAN :
           auth_dialog = SetupCamera([NoAuthDialog EXCEPT !.face_system = fs,
                                                          !.capture = "none",
                                                          !.state = "shown"],
                                     opened)

\* rectangles of the cascade of fallback_face_detection
FallbackFaces == { <<>>, << <<0, 0, 2, 2>> >> }

AuthDialogNext ==
    \/ \E ret \in BOOLEAN, result \in Results, faces \in FallbackFaces,
          seconds \in ElapsedLevels : AuthUpdateFrame(ret, result, faces, seconds)
    \/ AuthFinishAuth
    \/ \E yes \in BOOLEAN : OnSkip(yes)
    \/ \E opened \in BOOLEAN : RestartCamera(opened)
    \/ AuthCloseEvent

AuthDialogSpec == AuthDialogInit /\ [][AuthDialogNext]_vars

\* the scanning loop is a running thread: it keeps taking steps
LiveSpec == Spec /\ WF_vars(AuthLoop)

(***************************************************************************)
(* Properties.                                                             *)
(***************************************************************************)
IsName(outcome) ==
    outcome \notin {None, NoFaceFrame, EmptyCrop, UnknownFace, FrameError}

CameraWasStarted == auth_exit \notin {"none", "no_users", "no_camera"}

GalleryUnchanged ==
    known_names = names_before /\ known_embeddings = embeddings_before

\* C1: whenever authenticate_user returns after having started the camera
\* (accepted, timed out, cancelled, exception in the loop), the authenticator
\* no longer holds an open camera.
C1_CameraReleasedOnReturn ==
    (pc = "auth_done" /\ CameraWasStarted) => camera # "open"

\* C2: authenticate_user returns success only when the last
\* required_consecutive_frames frames it processed were all recognised as the
\* same name (the returned one) with confidence at or above the threshold.
C2_AcceptOnlySameNameRun ==
    (pc = "auth_done" /\ auth_result.ok) =>
        /\ run_length >= required_consecutive_frames
        /\ last_frame = auth_result.name

\* C3: after a frame in which detect_faces returns no box, consecutive_matches
\* is 0.
C3_NoFaceResetsCount ==
    (pc = "auth" /\ last_frame = NoFaceFrame) =>
        consecutive_matches = 0

\* C4: register_new_user returns success exactly when register_face added the
\* record, and when it returns failure the gallery is as before the call.
C4_RegisterSuccessIffAdded ==
    pc = "reg_done" =>
        /\ reg_result.ok <=> (known_names # names_before)
        /\ ~reg_result.ok => GalleryUnchanged

\* C5: a SimpleAuthDialog session delivers one terminal outcome: auth_successful
\* is emitted at most once, never together with auth_skipped, and never after
\* the dialog was rejected or closed.
C5_OneTerminalOutcome ==
    /\ Cardinality({i \in 1..Len(events) : events[i] = "auth_successful"}) <= 1
    /\ ~(\E i, j \in 1..Len(events) :
            events[i] = "auth_successful" /\ events[j] = "auth_skipped")
    /\ ~(\E i, j \in 1..Len(events) :
            i < j /\ events[i] \in {"reject", "close"} /\ events[j] = "auth_successful")

\* C6: on a run of authenticate_user in which detect_faces never reports a
\* face, the call terminates; it returns failure, by the timeout only once the
\* elapsed time has reached the timeout, and never success.
C6_NoFaceRunTimesOut ==
    /\ [](pc = "auth_done" /\ ~face_seen =>
              /\ ~auth_result.ok
              /\ auth_exit = "timeout" => elapsed >= timeout)
    /\ ((pc = "auth" /\ ~face_seen) ~> (pc = "auth_done" \/ face_seen))

C6_Witness ==
    /\ pc = "auth_done"
    /\ auth_exit = "timeout"
    /\ ~face_seen
    /\ "detect_faces" \in ops
    /\ ~auth_result.ok

\* C7: when three successive frames of a call are recognised as the same known
\* name with confidence >= min_confidence, the call returns success with that
\* name on the third of them.
C7_ThreeMatchesAccept ==
    (/\ pc \in {"auth", "auth_done"}
     /\ IsName(last_frame)
     /\ run_length >= 3) =>
        /\ pc = "auth_done"
        /\ auth_exit = "accepted"
        /\ auth_result.ok
        /\ auth_result.name = last_frame
        /\ auth_result.confidence >= min_confidence

C7_Witness ==
    /\ pc = "auth_done"
    /\ auth_result.ok
    /\ IsName(last_frame)
    /\ run_length = 3
    /\ auth_result.name = last_frame
    /\ Len(known_names) > 1

\* C8: register_face for a name whose sanitized form is already in known_names
\* fails as a duplicate and leaves known_names and known_embeddings unchanged,
\* called directly or from register_new_user.
C8_DuplicateNameRejected ==
    /\ (pc = "face_done" /\ InNames(SafeName(username), names_before)) =>
           /\ ~reg_result.ok
           /\ reg_result.msg = Msg("ya existe", SafeName(username))
           /\ GalleryUnchanged
    /\ (pc \in {"reg", "reg_done"} /\ InNames(SafeName(username), names_before)) =>
           GalleryUnchanged

C8_Witness ==
    /\ pc = "face_done"
    /\ InNames(SafeName(username), names_before)
    /\ username # SafeName(username)
    /\ Len(known_names) = 1

\* C9: register_new_user with a name of fewer than 2 characters fails with the
\* invalid-name result without opening the camera, without any read, detection
\* or embedding work, and without changing the gallery.
C9_ShortNameFailsEarly ==
    (pc = "reg_done" /\ Len(username) < 2) =>
        /\ ~reg_result.ok
        /\ reg_result.msg = Msg("El nombre debe tener al menos 2 caracteres", <<>>)
        /\ opens = 0
        /\ ops = {}
        /\ GalleryUnchanged

C9_Witness ==
    /\ pc = "reg_done"
    /\ Len(username) = 1
    /\ ~reg_result.ok
    /\ camera = "none"

\* C10: if the camera cannot be opened authenticate_user returns failure
\* without reading or processing a frame, and one call never constructs the
\* capture device a second time.
C10_CameraFailureFatal ==
    /\ (pc = "auth_done" /\ auth_exit = "no_camera") =>
           ~auth_result.ok /\ ops = {} /\ last_frame = None
    /\ pc \in {"auth", "auth_done"} => opens <= 1

\* C11: an exception raised while authenticate_user processes a frame makes
\* that frame a non-match: the loop is still running afterwards and
\* consecutive_matches is 0.
C11_FrameErrorIsNoMatch ==
    last_frame = FrameError => (pc = "auth" /\ consecutive_matches = 0)

\* C12: while a 'q' request is pending, no iteration of the authenticate_user
\* loop completes with the session still running.
C12_CancelCheckedEveryIteration ==
    [][(pc = "auth" /\ key_pending /\ pc' = "auth") => elapsed' = elapsed]_vars

\* C13: no call of start_camera, capture_frame, authenticate_user or
\* register_new_user constructs a capture device while the authenticator holds
\* an open one; a session started with an open camera constructs none.
C13_SingleCameraHandle ==
    /\ ~second_open
    /\ camera \in {"none", "open", "closed"}

C13_Witness ==
    /\ pc = "auth"
    /\ opens = 0
    /\ camera = "open"
    /\ "read" \in ops

\* the largest similarity of a call and the first gallery position that has it
MaxSim(sim) == CHOOSE x \in {sim[i] : i \in DOMAIN sim} : \A j \in DOMAIN sim : sim[j] <= x

FirstMax(sim) ==
    CHOOSE i \in DOMAIN sim :
        /\ sim[i] = MaxSim(sim)
        /\ \A j \in DOMAIN sim : sim[j] = MaxSim(sim) => i <= j

RecScans == pc = "rec_done" /\ Len(known_embeddings) > 0 /\ rec_call.query # 0

\* C14: recognize_face on an empty gallery, or on an image from which no
\* embedding is extracted, returns ("Desconocido", 0) and compares no candidate.
C14_NoScanWithoutGalleryOrQuery ==
    (pc = "rec_done" /\ (Len(known_embeddings) = 0 \/ rec_call.query = 0)) =>
        /\ rec_call.name = Desconocido
        /\ rec_call.confidence = 0
        /\ rec_call.scanned = 0

C14_Witness ==
    /\ pc = "rec_done"
    /\ Len(known_embeddings) > 0
    /\ rec_call.query = 0
    /\ rec_call.scanned = 0

\* C15: with a gallery and a query embedding, the confidence returned is
\* (s + 1) / 2 for the best similarity s, and the name is a gallery name exactly
\* when that confidence is >= confidence_threshold, "Desconocido" otherwise.
C15_InclusiveThreshold ==
    RecScans =>
        LET c == (MaxSim(rec_call.sim) + 100) \div 2
        IN  /\ rec_call.confidence = c
            /\ c >= confidence_threshold => InNames(rec_call.name, known_names)
            /\ c < confidence_threshold => rec_call.name = Desconocido

C15_Witness ==
    /\ RecScans
    /\ rec_call.confidence = confidence_threshold
    /\ rec_call.name # Desconocido

\* C16: the name recognize_face returns is the one at the first gallery
\* position that has the maximum similarity, and every candidate is compared.
C16_FirstMaximumWins ==
    (RecScans /\ rec_call.name # Desconocido) =>
        /\ rec_call.name = known_names[FirstMax(rec_call.sim)]
        /\ rec_call.scanned = Len(known_names)

C16_Witness ==
    /\ RecScans
    /\ Len(known_names) = 2
    /\ rec_call.sim[1] = rec_call.sim[2]
    /\ rec_call.name = known_names[1]

\* load_database returned (it did not raise)
Loaded == pc # "load_failed"

\* C17: no name occurs twice in known_names.
C17_NamesUnique ==
    Loaded =>
        \A i, j \in 1..Len(known_names) : i # j => known_names[i] # known_names[j]

\* C18: every embedding in known_embeddings has the dimension embedding_dim that
\* _save_to_cache writes to the cache.
C18_DimensionIsEmbeddingDim ==
    Loaded =>
        \A i \in 1..Len(known_embeddings) : known_embeddings[i] = embedding_dim

\* the cache load_database found is absent, unreadable or malformed
BadCache(c) ==
    \/ c.kind \in {"absent", "unreadable", "nokeys"}
    \/ c.kind = "dict" /\ \E i \in 1..Len(c.embeddings) : c.embeddings[i] <= 0

\* the names of the image files with a face, in the order they were read
ImageNames(order) ==
    LET faces == SelectSeq(order, IsLoadable)
    IN  [i \in 1..Len(faces) |-> faces[i].stem]

\* C19: a load_database that finds a bad cache returns with a gallery that
\* holds exactly the records of the reference images.
C19_BadCacheRebuilds ==
    (pc \in {"load_done", "load_failed"} /\ BadCache(load_call.cache)) =>
        /\ pc = "load_done"
        /\ known_names = ImageNames(load_call.order)
        /\ known_embeddings = [i \in 1..Len(known_names) |-> embedding_dim]

\* C20: delete_user of a name that is not in the gallery fails as not found and
\* leaves the gallery unchanged; of a name that is in it, it succeeds, the name
\* is no longer in known_names and the user count is one less.
C20_DeleteRemovesName ==
    pc = "del_done" =>
        IF ~InNames(username, names_before)
        THEN /\ ~reg_result.ok
             /\ reg_result.msg = Msg("no encontrado", username)
             /\ GalleryUnchanged
        ELSE /\ reg_result.ok
             /\ ~InNames(username, known_names)
             /\ GetUserCount(known_names) = GetUserCount(names_before) - 1

\* C21: register_new_user calls register_face only in an iteration in which
\* SPACE was pressed on a frame with exactly one face of quality >= 50; SPACE on
\* a frame with no face, several faces or lower quality leaves the session
\* running, 'q' ends it, and in these cases the gallery is as the call found it.
C21_CaptureNeedsOneGoodFace ==
    (pc \in {"reg", "reg_done"} /\ reg_frame.seen) =>
        LET good == reg_frame.faces = 1 /\ reg_frame.quality >= 50
        IN  /\ reg_frame.registered => (reg_frame.key = " " /\ good)
            /\ (reg_frame.key = " " /\ ~good) =>
                   (pc = "reg" /\ ~reg_frame.registered /\ GalleryUnchanged)
            /\ reg_frame.key = "q" => (pc = "reg_done" /\ GalleryUnchanged)

C21_Witness ==
    /\ pc = "reg"
    /\ reg_frame.seen
    /\ reg_frame.key = " "
    /\ reg_frame.faces = 2
    /\ reg_frame.quality = 100
    /\ "register_face" \notin ops

\* C22: when the landmarks kept by _extract_face_embedding are all zero, it
\* returns None; every vector it returns has Euclidean norm 1.
C22_ZeroNormGivesNone ==
    (fn_call.fn = "_extract_face_embedding" /\ fn_call.done) =>
        /\ (/\ fn_call.face_mesh
            /\ fn_call.multi_face_landmarks # <<>>
            /\ \A i \in 1..Min(Len(fn_call.multi_face_landmarks[1]), 468) :
                   fn_call.multi_face_landmarks[1][i] = <<0, 0, 0>>)
               => fn_call.out.is_none
        /\ ~fn_call.out.is_none =>
               SumSq(fn_call.out.vec, 1, Len(fn_call.out.vec)) = One * One

\* the penalty of a brightness value: at most one of 30, 20, 10, 5
BrightnessPenalty(b) ==
    CHOOSE p \in {0, 5, 10, 20, 30} :
        /\ p = 30 <=> b < 50
        /\ p = 10 <=> (b >= 50 /\ b < 100)
        /\ p = 5 <=> (b > 150 /\ b <= 200)
        /\ p = 20 <=> b > 200

\* the sum of the penalties that apply to a finished calculate_face_quality call
Penalties ==
    (IF fn_call.h < 50 \/ fn_call.w < 50 THEN 40 ELSE 0)
    + (IF 10 * fn_call.w < 7 * fn_call.h \/ 10 * fn_call.w > 13 * fn_call.h
       THEN 20 ELSE 0)
    + BrightnessPenalty(fn_call.brightness)
    + (IF fn_call.contrast < 20 THEN 15 ELSE 0)
    + (IF fn_call.blur < 50 THEN 25 ELSE 0)

\* C23: calculate_face_quality returns 100 minus the penalties that apply (small
\* crop 40, aspect ratio 20, one brightness penalty at most, low contrast 15,
\* blur 25), and 0 when that is negative.
C23_ScoreIsClampedPenaltySum ==
    (fn_call.fn = "calculate_face_quality" /\ fn_call.done /\ ~fn_call.raises) =>
        /\ fn_call.out \in 0..100
        /\ Penalties <= 100 => fn_call.out = 100 - Penalties
        /\ Penalties > 100 => fn_call.out = 0

C23_Witness ==
    /\ fn_call.fn = "calculate_face_quality"
    /\ fn_call.done
    /\ ~fn_call.raises
    /\ Penalties = 130
    /\ fn_call.out = 0

InFrame(box) ==
    /\ 0 <= box[1] /\ box[1] < box[3] /\ box[3] <= FrameShape[2]
    /\ 0 <= box[2] /\ box[2] < box[4] /\ box[4] <= FrameShape[1]

\* C24: every box (x1, y1, x2, y2) detect_faces returns, from MediaPipe or from
\* the OpenCV cascade, lies inside the frame and has positive width and height.
C24_BoxesInsideFrame ==
    (fn_call.fn = "detect_faces" /\ fn_call.done) =>
        \A i \in 1..Len(fn_call.out) : InFrame(fn_call.out[i])

\* C25: SimpleAuthDialog hands out user data only when the last three frames
\* process_frame saw were each recognised as that same known name with
\* confidence >= 0.6: a frame with no face, an empty crop, an unknown face,
\* another name or an error in between restarts the count.
C25_DialogAcceptsOnlySameNameRun ==
    finish_timer # None =>
        /\ dialog_history.last = finish_timer
        /\ dialog_history.run >= 3
        /\ InNames(finish_timer, known_names)

\* C26: a SimpleAuthDialog session does not scan for ever: when it is not
\* accepted within the session timeout it times out and the frame timer stops.
C26_DialogStopsScanning == <>(~timer_active)

C28_AcceptedNameIsKnown ==
    (pc = "auth_done" /\ auth_result.ok) =>
        /\ InNames(auth_result.name, known_names)
        /\ auth_result.name # Desconocido
        /\ auth_result.name # None

C28_Witness ==
    /\ pc = "auth_done"
    /\ auth_result.ok
    /\ Len(known_names) = 2
    /\ auth_result.name = known_names[2]

\* C29: known_names and known_embeddings have the same length after every call,
\* and register_face and delete_user, successful or failing, change them at the
\* same position: both get one element appended, or both lose the element at
\* the first position of the name deleted.
C29_ListsStayAligned ==
    [][/\ Len(known_names') = Len(known_embeddings')
       /\ (pc' \in {"face_done", "del_done"} /\ known_names' # known_names) =>
              \/ /\ pc' = "face_done"
                 /\ known_names' = Append(known_names, SafeName(username'))
                 /\ known_embeddings' = Append(known_embeddings, embedding_dim)
              \/ /\ pc' = "del_done"
                 /\ \E i \in 1..Len(known_names) :
                        /\ known_names[i] = username'
                        /\ \A j \in 1..(i - 1) : known_names[j] # username'
                        /\ known_names' = Pop(known_names, i)
                        /\ known_embeddings' = Pop(known_embeddings, i)]_vars

\* a failing delete_user took the record of 'ab' out of a gallery whose
\* embeddings differ
C29_Witness ==
    /\ pc = "del_done"
    /\ ~reg_result.ok
    /\ Len(names_before) = 2
    /\ embeddings_before[1] # embeddings_before[2]
    /\ known_names = Pop(names_before, 2)
    /\ known_embeddings = Pop(embeddings_before, 2)

\* C30: authenticate_user on an empty gallery returns (False, None, 0.0); it
\* constructs no capture device, reads and processes no frame, and leaves camera
\* and is_camera_running as they were.
C30_EmptyGalleryReturnsAtOnce ==
    [][(pc = "idle" /\ pc' \in {"auth", "auth_done"} /\ known_names = <<>>) =>
          /\ pc' = "auth_done"
          /\ auth_result' = [ok |-> FALSE, name |-> None, confidence |-> 0]
          /\ opens' = 0
          /\ ops' = {}
          /\ camera' = camera
          /\ is_camera_running' = is_camera_running]_vars

C30_Witness ==
    /\ pc = "auth_done"
    /\ auth_exit = "no_users"
    /\ known_names = <<>>
    /\ camera = "open"
    /\ is_camera_running

====
